---- MODULE Spec2Model ----
(***************************************************************************)
(* Model of csv_log.py: the PZEM-017 Modbus logger.                        *)
(*                                                                         *)
(*   log_file        creates <dir>/log_files/<outfile> with a header row   *)
(*   read_pzem_data  generator: eight register reads, then one yield       *)
(*   write_results   opens the log for append and writes what it iterates  *)
(*   main            init, log_file, then the endless try/except loop      *)
(*                                                                         *)
(* Text is a sequence of one-character strings.  A path inside log_files   *)
(* is identified by its file name.  A CSV line is the sequence of its      *)
(* fields; a decimal number is the pair <<numerator, denominator>>.        *)
(***************************************************************************)
EXTENDS Integers, Sequences, FiniteSets, TLC

VARIABLES
    dirs,         \* directories that exist: subset of {"dir", "log_files"}
    fs,           \* files in log_files: file name -> sequence of lines
    call,         \* log_file activations: caller -> frame of log_file
    calls,        \* number of log_file calls started so far
    pc,           \* position of the main thread (line of csv_log.py)
    ctx,          \* which write_results call is active: "try" (l.17) or "except" (l.19)
    exc,          \* exception that left main ("none" while running)
    serialOpen,   \* instrument.serial is open
    log_filepath, \* main's local log_filepath
    data_gen,     \* main's local data_gen: the generator object it names
    csv_str,      \* write_results' loop variable
    fileOpen,     \* write_results holds an open handle on the log
    interrupted,  \* the operator interrupt (SIGINT) has been delivered
    intAt,        \* position at which it was delivered
    clock,        \* wall clock, one tick per strftime call
    hist          \* per generator created: what its poll cycle did and read

vars == <<dirs, fs, call, calls, pc, ctx, exc, serialOpen, log_filepath,
          data_gen, csv_str, fileOpen, interrupted, intAt, clock, hist>>

----------------------------------------------------------------------------
(* Bounds of the model *)

MaxCalls  == 3    \* log_file calls made by the harness of SpecLogFile
MaxPre    == 2    \* largest _n suffix among the files present initially
MaxCycles == 2    \* generators created by the main loop

----------------------------------------------------------------------------
(* Text helpers *)

Upper == <<"A","B","C","D","E","F","G","H","I","J","K","L","M",
           "N","O","P","Q","R","S","T","U","V","W","X","Y","Z">>
Lower == <<"a","b","c","d","e","f","g","h","i","j","k","l","m",
           "n","o","p","q","r","s","t","u","v","w","x","y","z">>

\* str.lower() on one character
LowerChar(c) ==
    IF \E i \in 1..26 : Upper[i] = c
    THEN Lower[CHOOSE i \in 1..26 : Upper[i] = c]
    ELSE c

\* str.lower()
StrLower(s) == [i \in 1..Len(s) |-> LowerChar(s[i])]

Digits == <<"0","1","2","3","4","5","6","7","8","9">>

RECURSIVE IntStr(_)
\* f"{n}" for n >= 0
IntStr(n) ==
    IF n < 10 THEN <<Digits[n + 1]>>
    ELSE IntStr(n \div 10) \o <<Digits[(n % 10) + 1]>>

\* os.path.splitext on a name without path separators: the extension starts
\* at the last dot, unless only dots precede that dot.
SplitExt(p) ==
    LET dots == {i \in 1..Len(p) : p[i] = "."}
    IN  IF dots = {} THEN <<p, <<>>>>
        ELSE LET dotIndex == CHOOSE i \in dots : \A j \in dots : j <= i
             IN  IF \E j \in 1..(dotIndex - 1) : p[j] # "."
                 THEN <<SubSeq(p, 1, dotIndex - 1), SubSeq(p, dotIndex, Len(p))>>
                 ELSE <<p, <<>>>>

DotCsv == <<".","c","s","v">>

\* f"{file_name}_{n}.csv"
Numbered(file_name, n) == file_name \o <<"_">> \o IntStr(n) \o DotCsv

----------------------------------------------------------------------------
(* log_file, lines 77-128 *)

DefaultOutfile == <<"p","z","e","m","_","l","o","g","s",".","c","s","v">>

header == <<"Time", "Voltage in V", "Current in A", "Power in W",
            "Energy in Wh", "High Voltage Alarm", "Low Voltage Alarm">>

\* the frame of one log_file activation
NoCall == [pc |-> "idle", outfile |-> <<>>, file_name |-> <<>>,
           extension |-> <<>>, n |-> 0, new_filepath |-> <<>>,
           open |-> FALSE, exc |-> "none", pre |-> <<>>, given |-> <<>>]

NewCall(outfile, files) ==
    [NoCall EXCEPT !.pc = "L93", !.outfile = outfile, !.given = outfile,
                   !.pre = files]

\* os.path.exists(new_filepath)
Exists(name) == "log_files" \in dirs /\ name \in DOMAIN fs

\* the test of line 97 without lower()
BadExtension_CaseSensitive(extension) == extension # DotCsv

\* the extension test of line 97
BadExtension(extension) == StrLower(extension) # DotCsv

\* line 93: os.makedirs(dir, exist_ok=True)
LF_MakeDir(p) ==
    /\ call[p].pc = "L93"
    /\ dirs' = dirs \cup {"dir"}
    /\ call' = [call EXCEPT ![p].pc = "L96"]
    /\ UNCHANGED fs

\* lines 96-98: splitext and the extension check
LF_CheckExt(p) ==
    /\ call[p].pc = "L96"
    /\ LET se == SplitExt(call[p].outfile)
       IN  IF BadExtension(se[2])
           THEN call' = [call EXCEPT ![p].pc = "raised", ![p].exc = "ValueError",
                                     ![p].file_name = se[1], ![p].extension = se[2]]
           ELSE call' = [call EXCEPT ![p].pc = "L105",
                                     ![p].file_name = se[1], ![p].extension = se[2]]
    /\ UNCHANGED <<dirs, fs>>

\* lines 101-109: makedirs of the log_files folder; an OSError is printed and
\* execution goes on; then the first candidate path is built
LF_MakeFolder(p) ==
    /\ call[p].pc = "L105"
    /\ \/ dirs' = dirs \cup {"dir", "log_files"}
       \/ /\ "log_files" \notin dirs
          /\ dirs' = dirs
    /\ call' = [call EXCEPT ![p].pc = "L114", ![p].n = 1,
                            ![p].new_filepath = call[p].outfile]
    /\ UNCHANGED fs

\* line 114 with "if" in place of "while": one rename at most
LF_Test_If(p) ==
    /\ call[p].pc = "L114"
    /\ call' = [call EXCEPT ![p].pc =
                   IF Exists(call[p].new_filepath) /\ call[p].n = 1
                   THEN "L115" ELSE "L124"]
    /\ UNCHANGED <<dirs, fs>>

\* line 114: the while test
LF_Test(p) ==
    /\ call[p].pc = "L114"
    /\ call' = [call EXCEPT ![p].pc =
                   IF Exists(call[p].new_filepath) THEN "L115" ELSE "L124"]
    /\ UNCHANGED <<dirs, fs>>

\* lines 115-117: the while body
LF_Rename(p) ==
    /\ call[p].pc = "L115"
    /\ LET name == Numbered(call[p].file_name, call[p].n)
       IN  call' = [call EXCEPT ![p].pc = "L114", ![p].outfile = name,
                                ![p].n = call[p].n + 1,
                                ![p].new_filepath = name]
    /\ UNCHANGED <<dirs, fs>>

\* open(path, 'a'): creates the file when it is missing, keeps it otherwise
OpenAppend(files, name) ==
    IF name \in DOMAIN files THEN files ELSE (name :> <<>>) @@ files

\* writer.writerow(line) on a handle opened for append
AppendLine(files, name, line) ==
    [files EXCEPT ![name] = Append(files[name], line)]

\* line 124 with the path built from dir, not from the log_files folder:
\* the open succeeds whether or not the folder exists
LF_Open_AnyFolder(p) ==
    /\ call[p].pc = "L124"
    /\ fs' = OpenAppend(fs, call[p].new_filepath)
    /\ call' = [call EXCEPT ![p].pc = "L126", ![p].open = TRUE]
    /\ UNCHANGED dirs

\* line 124: open for append; fails when the folder is missing
LF_Open(p) ==
    /\ call[p].pc = "L124"
    /\ IF "log_files" \in dirs
       THEN /\ fs' = OpenAppend(fs, call[p].new_filepath)
            /\ call' = [call EXCEPT ![p].pc = "L126", ![p].open = TRUE]
       ELSE /\ fs' = fs
            /\ call' = [call EXCEPT ![p].pc = "raised", ![p].exc = "OSError"]
    /\ UNCHANGED dirs

\* lines 125-128 without the writerow of line 126
LF_WriteHeader_NoRow(p) ==
    /\ call[p].pc = "L126"
    /\ fs' = fs
    /\ call' = [call EXCEPT ![p].pc = "returned", ![p].open = FALSE]
    /\ UNCHANGED dirs

\* lines 125-128: write the header, close the file, return the path
LF_WriteHeader(p) ==
    /\ call[p].pc = "L126"
    /\ fs' = AppendLine(fs, call[p].new_filepath, header)
    /\ call' = [call EXCEPT ![p].pc = "returned", ![p].open = FALSE]
    /\ UNCHANGED dirs

LF_Step(p) ==
    \/ LF_MakeDir(p)
    \/ LF_CheckExt(p)
    \/ LF_MakeFolder(p)
    \/ LF_Test(p)
    \/ LF_Rename(p)
    \/ LF_Open(p)
    \/ LF_WriteHeader(p)

----------------------------------------------------------------------------
(* read_pzem_data, lines 37-74 *)

\* register images the simulated device can hold during one poll cycle:
\* voltage, current, power low/high, energy low/high, high/low voltage alarm
Images == { <<23015, 102, 456, 0, 1234, 0, 0, 0>>,
            <<22990, 98, 65535, 1, 7, 2, 1, 0>> }

Unbound == <<>>

\* main's data_gen before line 16 has run
NoGen == [state |-> "unbound", id |-> 0, k |-> 0, regs |-> <<>>,
          row_data |-> Unbound, pending |-> "none"]

\* the generator object read_pzem_data(instrument) returns: no code has run
NewGen(id) == [NoGen EXCEPT !.state = "created", !.id = id]

NoPoll == [dev |-> <<>>, vals |-> <<>>, outcome |-> "created",
           row |-> Unbound, yielded |-> FALSE, addrs |-> <<>>]

RECURSIVE Pow(_, _)
Pow(b, e) == IF e = 0 THEN 1 ELSE b * Pow(b, e - 1)

\* x << n on Python integers
Shl(x, n) == x * Pow(2, n)

\* float(x) of an integer
Float(x) == <<x, 1>>

\* x * 0.1
TimesTenth(x) == <<x[1], x[2] * 10>>

\* instrument.read_register(address, number_of_decimals, functioncode=4)
ReadRegister(dev, address, number_of_decimals) ==
    IF number_of_decimals = 0
    THEN dev[address + 1]
    ELSE <<dev[address + 1], Pow(10, number_of_decimals)>>

\* lines 52-63 with power_high read before power_low
Address_HighFirst(k) == IF k = 2 THEN 3 ELSE IF k = 3 THEN 2 ELSE k

\* register address of the read that follows k reads (lines 52-63)
Address(k) == k

\* number_of_decimals of the read at an address (lines 52-63)
Decimals(address) == IF address \in {0, 1} THEN 2 ELSE 0

\* lines 56 and 59 with the two words of each pair exchanged
RowData_Swapped(row_time, r) ==
    LET power  == Float(Shl(r[3], 16) + r[4])
        energy == Float(Shl(r[5], 16) + r[6])
    IN  <<row_time>> \o <<r[1], r[2], TimesTenth(power), energy, r[7], r[8]>>

\* lines 56, 59 and 66-68; r holds the eight values in read order:
\* voltage, current, power_low, power_high, energy_low, energy_high, alarms
RowData(row_time, r) ==
    LET power  == Float(Shl(r[4], 16) + r[3])
        energy == Float(Shl(r[6], 16) + r[5])
    IN  <<row_time>> \o <<r[1], r[2], TimesTenth(power), energy, r[7], r[8]>>

\* an exception leaves write_results and reaches main's try statement
\* (lines 15-21): the with block closes the file on the way
Propagate(e) ==
    /\ fileOpen' = FALSE
    /\ IF e = "KeyboardInterrupt" /\ ctx = "try"
       THEN pc' = "L19" /\ exc' = exc
       ELSE pc' = "crashed" /\ exc' = e

SetPoll(field, value) == [hist EXCEPT ![data_gen.id][field] = value]

\* lines 52-63: one register read succeeds
GenRead ==
    /\ pc = "read"
    /\ LET k == data_gen.k
           a == Address(k)
           v == ReadRegister(hist[data_gen.id].dev, a, Decimals(a))
       IN  /\ data_gen' = [data_gen EXCEPT !.k = k + 1, !.regs = Append(@, v)]
           /\ hist' = [hist EXCEPT ![data_gen.id].vals = Append(@, v),
                                   ![data_gen.id].addrs = Append(@, a),
                                   ![data_gen.id].outcome = "polling"]
           /\ pc' = IF k + 1 = 8 THEN "L66" ELSE "read"
    /\ UNCHANGED <<dirs, fs, call, calls, ctx, exc, serialOpen, log_filepath,
                   csv_str, fileOpen, interrupted, intAt, clock>>

\* lines 52-63 and 70: a register read raises IllegalRequestError, which the
\* except clause catches
GenReadIllegal ==
    /\ pc = "read"
    /\ pc' = "L71"
    /\ hist' = [hist EXCEPT ![data_gen.id].outcome = "illegal",
                            ![data_gen.id].addrs = Append(@, Address(data_gen.k))]
    /\ UNCHANGED <<dirs, fs, call, calls, ctx, exc, serialOpen, log_filepath,
                   data_gen, csv_str, fileOpen, interrupted, intAt, clock>>

\* lines 52-63: a register read raises another exception (NoResponseError,
\* SerialException, ...); no except clause matches, the finally clause runs
\* with the exception in flight
GenReadOther ==
    /\ pc = "read"
    /\ pc' = "L74"
    /\ data_gen' = [data_gen EXCEPT !.pending = "OtherError"]
    /\ hist' = [hist EXCEPT ![data_gen.id].outcome = "other",
                            ![data_gen.id].addrs = Append(@, Address(data_gen.k))]
    /\ UNCHANGED <<dirs, fs, call, calls, ctx, exc, serialOpen, log_filepath,
                   csv_str, fileOpen, interrupted, intAt, clock>>

\* lines 66-68 (with the sums of lines 56 and 59): row_data is bound
GenCompose ==
    /\ pc = "L66"
    /\ LET row == RowData(clock, data_gen.regs)
       IN  /\ data_gen' = [data_gen EXCEPT !.row_data = row]
           /\ hist' = [hist EXCEPT ![data_gen.id].row = row,
                                   ![data_gen.id].outcome = "reading"]
    /\ clock' = clock + 1
    /\ pc' = "L68"
    /\ UNCHANGED <<dirs, fs, call, calls, ctx, exc, serialOpen, log_filepath,
                   csv_str, fileOpen, interrupted, intAt>>

\* the try body ends normally and control enters the finally clause
GenLeaveTry ==
    /\ pc = "L68"
    /\ pc' = "L74"
    /\ UNCHANGED <<dirs, fs, call, calls, ctx, exc, serialOpen, log_filepath,
                   data_gen, csv_str, fileOpen, interrupted, intAt, clock, hist>>

\* line 71: the except clause prints the error
GenExcept ==
    /\ pc = "L71"
    /\ pc' = "L74"
    /\ UNCHANGED <<dirs, fs, call, calls, ctx, exc, serialOpen, log_filepath,
                   data_gen, csv_str, fileOpen, interrupted, intAt, clock, hist>>

\* line 74 with row_data built up read by read: what was read so far is
\* yielded when row_data is incomplete
GenFinally_Partial ==
    /\ pc = "L74"
    /\ data_gen' = [data_gen EXCEPT !.state = "suspended"]
    /\ csv_str' = IF data_gen.row_data = Unbound
                  THEN <<clock>> \o data_gen.regs ELSE data_gen.row_data
    /\ hist' = SetPoll("yielded", TRUE)
    /\ pc' = "L142"
    /\ UNCHANGED <<exc, fileOpen>>
    /\ UNCHANGED <<dirs, fs, call, calls, ctx, serialOpen, log_filepath,
                   interrupted, intAt, clock>>

\* line 74 as a finally clause that returns when there is no row: the
\* exception in flight is dropped and the generator ends normally
GenFinally_Swallow ==
    /\ pc = "L74"
    /\ IF data_gen.row_data = Unbound
       THEN /\ data_gen' = [data_gen EXCEPT !.state = "finished", !.pending = "none"]
            /\ pc' = "Lexit"
            /\ UNCHANGED <<csv_str, hist>>
       ELSE /\ data_gen' = [data_gen EXCEPT !.state = "suspended"]
            /\ csv_str' = data_gen.row_data
            /\ hist' = SetPoll("yielded", TRUE)
            /\ pc' = "L142"
    /\ UNCHANGED <<exc, fileOpen>>
    /\ UNCHANGED <<dirs, fs, call, calls, ctx, serialOpen, log_filepath,
                   interrupted, intAt, clock>>

\* line 74: yield row_data.  Reading an unbound row_data raises
\* UnboundLocalError, which replaces whatever exception was in flight.
GenFinally ==
    /\ pc = "L74"
    /\ IF data_gen.row_data = Unbound
       THEN /\ data_gen' = [data_gen EXCEPT !.state = "finished", !.pending = "none"]
            /\ Propagate("UnboundLocalError")
            /\ UNCHANGED <<csv_str, hist>>
       ELSE /\ data_gen' = [data_gen EXCEPT !.state = "suspended"]
            /\ csv_str' = data_gen.row_data
            /\ hist' = SetPoll("yielded", TRUE)
            /\ pc' = "L142"
            /\ UNCHANGED <<exc, fileOpen>>
    /\ UNCHANGED <<dirs, fs, call, calls, ctx, serialOpen, log_filepath,
                   interrupted, intAt, clock>>

----------------------------------------------------------------------------
(* write_results, lines 131-142 *)

\* line 139 with mode 'w': the file is emptied
WrOpen_Truncate ==
    /\ pc = "L139"
    /\ fs' = [fs EXCEPT ![log_filepath] = <<>>]
    /\ fileOpen' = TRUE
    /\ pc' = "L141"
    /\ UNCHANGED <<dirs, call, calls, ctx, exc, serialOpen, log_filepath,
                   data_gen, csv_str, interrupted, intAt, clock, hist>>

\* line 139: open(filepath, 'a')
WrOpen ==
    /\ pc = "L139"
    /\ fs' = OpenAppend(fs, log_filepath)
    /\ fileOpen' = TRUE
    /\ pc' = "L141"
    /\ UNCHANGED <<dirs, call, calls, ctx, exc, serialOpen, log_filepath,
                   data_gen, csv_str, interrupted, intAt, clock, hist>>

\* line 141, next() on a generator that has not started: its body begins
WrNextStart ==
    /\ pc = "L141"
    /\ data_gen.state = "created"
    /\ \E dev \in Images : hist' = SetPoll("dev", dev)
    /\ data_gen' = [data_gen EXCEPT !.state = "running"]
    /\ pc' = "read"
    /\ UNCHANGED <<dirs, fs, call, calls, ctx, exc, serialOpen, log_filepath,
                   csv_str, fileOpen, interrupted, intAt, clock>>

\* line 141 on a generator that yields row_data a second time when it is
\* resumed, and ends after that
WrNextResume_YieldAgain ==
    /\ pc = "L141"
    /\ data_gen.state = "suspended"
    /\ data_gen' = [data_gen EXCEPT !.state = "finished", !.pending = "none"]
    /\ pc' = "L142"
    /\ csv_str' = data_gen.row_data
    /\ UNCHANGED <<dirs, fs, call, calls, ctx, exc, serialOpen, log_filepath,
                   fileOpen, interrupted, intAt, clock, hist>>

\* line 141, next() on the suspended generator: the finally clause ends; an
\* exception that was in flight is raised again, otherwise the generator
\* returns and the for loop is over
WrNextResume ==
    /\ pc = "L141"
    /\ data_gen.state = "suspended"
    /\ data_gen' = [data_gen EXCEPT !.state = "finished", !.pending = "none"]
    /\ IF data_gen.pending = "none"
       THEN pc' = "Lexit" /\ UNCHANGED <<exc, fileOpen>>
       ELSE Propagate(data_gen.pending)
    /\ UNCHANGED <<dirs, fs, call, calls, ctx, serialOpen, log_filepath,
                   csv_str, interrupted, intAt, clock, hist>>

\* line 141, next() on a finished generator: StopIteration, the loop is over
WrNextDone ==
    /\ pc = "L141"
    /\ data_gen.state = "finished"
    /\ pc' = "Lexit"
    /\ UNCHANGED <<dirs, fs, call, calls, ctx, exc, serialOpen, log_filepath,
                   data_gen, csv_str, fileOpen, interrupted, intAt, clock, hist>>

\* line 142: writer.writerow(csv_str)
WrWriteRow ==
    /\ pc = "L142"
    /\ fs' = AppendLine(fs, log_filepath, csv_str)
    /\ pc' = "L141"
    /\ UNCHANGED <<dirs, call, calls, ctx, exc, serialOpen, log_filepath,
                   data_gen, csv_str, fileOpen, interrupted, intAt, clock, hist>>

\* write_results without the with block: the handle stays open on return
WrReturn_NoClose ==
    /\ pc = "Lexit"
    /\ pc' = IF ctx = "try" THEN "L14" ELSE "L20"
    /\ UNCHANGED <<dirs, fs, call, calls, ctx, exc, serialOpen, log_filepath,
                   data_gen, csv_str, fileOpen, interrupted, intAt, clock, hist>>

\* the with block ends: the file is closed and write_results returns to
\* line 17 (the loop goes round) or to line 19 (line 20 is next)
WrReturn ==
    /\ pc = "Lexit"
    /\ fileOpen' = FALSE
    /\ pc' = IF ctx = "try" THEN "L14" ELSE "L20"
    /\ UNCHANGED <<dirs, fs, call, calls, ctx, exc, serialOpen, log_filepath,
                   data_gen, csv_str, interrupted, intAt, clock, hist>>

----------------------------------------------------------------------------
(* main, lines 9-21 *)

LoopVars == <<ctx, exc, serialOpen, log_filepath, data_gen, csv_str,
              fileOpen, interrupted, intAt, clock, hist>>

\* line 10: init() opens the serial port; line 11 calls log_file()
MainInit ==
    /\ pc = "L10"
    /\ serialOpen' = TRUE
    /\ call' = [call EXCEPT ![1] = NewCall(DefaultOutfile, fs)]
    /\ calls' = calls + 1
    /\ pc' = "L11"
    /\ UNCHANGED <<dirs, fs, ctx, exc, log_filepath, data_gen, csv_str,
                   fileOpen, interrupted, intAt, clock, hist>>

\* line 11: log_file() runs
MainLogFile ==
    /\ pc = "L11"
    /\ LF_Step(1)
    /\ UNCHANGED <<calls, pc>>
    /\ UNCHANGED LoopVars

\* line 11: log_file() returns its path, or its exception leaves main
MainLogFileEnd ==
    /\ pc = "L11"
    /\ \/ /\ call[1].pc = "returned"
          /\ log_filepath' = call[1].new_filepath
          /\ pc' = "L14"
          /\ exc' = exc
       \/ /\ call[1].pc = "raised"
          /\ log_filepath' = log_filepath
          /\ pc' = "crashed"
          /\ exc' = call[1].exc
    /\ UNCHANGED <<dirs, fs, call, calls, ctx, serialOpen, data_gen, csv_str,
                   fileOpen, interrupted, intAt, clock, hist>>

\* line 14: while True; line 15: the try statement is entered
MainWhile ==
    /\ pc = "L14"
    /\ pc' = "L16"
    /\ UNCHANGED <<dirs, fs, call, calls>>
    /\ UNCHANGED LoopVars

\* line 16: data_gen = read_pzem_data(instrument)
MainNewGen ==
    /\ pc = "L16"
    /\ Len(hist) < MaxCycles
    /\ data_gen' = NewGen(Len(hist) + 1)
    /\ hist' = Append(hist, NoPoll)
    /\ pc' = "L17"
    /\ UNCHANGED <<dirs, fs, call, calls, ctx, exc, serialOpen, log_filepath,
                   csv_str, fileOpen, interrupted, intAt, clock>>

\* line 17: write_results(data_gen, log_filepath) is entered
MainWrite ==
    /\ pc = "L17"
    /\ ctx' = "try"
    /\ pc' = "L139"
    /\ UNCHANGED <<dirs, fs, call, calls, exc, serialOpen, log_filepath,
                   data_gen, csv_str, fileOpen, interrupted, intAt, clock, hist>>

\* line 19: the handler calls write_results(data_gen, log_filepath); when
\* data_gen was never bound the call raises UnboundLocalError
MainHandler ==
    /\ pc = "L19"
    /\ IF data_gen.state = "unbound"
       THEN pc' = "crashed" /\ exc' = "UnboundLocalError" /\ ctx' = ctx
       ELSE pc' = "L139" /\ exc' = exc /\ ctx' = "except"
    /\ UNCHANGED <<dirs, fs, call, calls, serialOpen, log_filepath,
                   data_gen, csv_str, fileOpen, interrupted, intAt, clock, hist>>

\* lines 20-21: instrument.serial.close(); break; main returns
MainClose ==
    /\ pc = "L20"
    /\ serialOpen' = FALSE
    /\ pc' = "done"
    /\ UNCHANGED <<dirs, fs, call, calls, ctx, exc, log_filepath,
                   data_gen, csv_str, fileOpen, interrupted, intAt, clock, hist>>

\* positions of the loop at which KeyboardInterrupt can be raised.  An
\* exception already in flight reaches the finally clause of the generator
\* without an instruction boundary in between.
InTry       == {"L16", "L17"}
InWrite     == {"L139", "L141", "L142", "Lexit"}
InGenTry    == {"read", "L66", "L68", "L71"}

\* SIGINT is delivered once, while the try-side of the loop runs
Interrupt ==
    /\ ~interrupted
    /\ ctx = "try"
    /\ pc \in {"L14", "L74"} \cup InTry \cup InWrite \cup InGenTry
    /\ pc = "L74" => data_gen.pending = "none"
    /\ interrupted' = TRUE
    /\ intAt' = pc
    /\ CASE pc = "L14" ->
              \* outside the try statement: nothing catches it
              /\ pc' = "crashed" /\ exc' = "KeyboardInterrupt"
              /\ UNCHANGED <<data_gen, fileOpen, hist>>
         [] pc \in InTry ->
              /\ pc' = "L19"
              /\ UNCHANGED <<exc, data_gen, fileOpen, hist>>
         [] pc \in InWrite ->
              \* raised in write_results: the with block closes the file
              /\ Propagate("KeyboardInterrupt")
              /\ UNCHANGED <<data_gen, hist>>
         [] pc \in InGenTry ->
              \* raised in the try body or the except clause of the
              \* generator: the finally clause runs with it in flight
              /\ pc' = "L74"
              /\ data_gen' = [data_gen EXCEPT !.pending = "KeyboardInterrupt"]
              /\ hist' = IF pc \in {"read", "L66"}
                         THEN SetPoll("outcome", "interrupt") ELSE hist
              /\ UNCHANGED <<exc, fileOpen>>
         [] pc = "L74" ->
              \* raised in the finally clause before the yield: it leaves
              \* the generator and write_results
              /\ data_gen' = [data_gen EXCEPT !.state = "finished"]
              /\ Propagate("KeyboardInterrupt")
              /\ UNCHANGED hist
    /\ UNCHANGED <<dirs, fs, call, calls, ctx, serialOpen, log_filepath,
                   csv_str, clock>>

----------------------------------------------------------------------------
(* Initial states *)

\* content of a file left by an earlier run
OldLines == <<header, <<"old">>>>

LogStem == <<"L","O","G">>
UpperName == LogStem \o <<".","C","S","V">>

\* names a file of an earlier run can have
PreNames ==
    {DefaultOutfile, UpperName}
    \cup {Numbered(SplitExt(DefaultOutfile)[1], n) : n \in 1..MaxPre}
    \cup {Numbered(LogStem, n) : n \in 1..(MaxPre - 1)}

\* the directory tree before the program starts
InitDisk ==
    \/ /\ dirs \in {{}, {"dir"}}
       /\ fs = [x \in {} |-> OldLines]
    \/ /\ dirs = {"dir", "log_files"}
       /\ \E present \in SUBSET PreNames : fs = [x \in present |-> OldLines]

InitLoop ==
    /\ ctx = "try"
    /\ exc = "none"
    /\ serialOpen = FALSE
    /\ log_filepath = <<>>
    /\ data_gen = NoGen
    /\ csv_str = Unbound
    /\ fileOpen = FALSE
    /\ interrupted = FALSE
    /\ intAt = "none"
    /\ clock = 0
    /\ hist = <<>>

\* main() is about to run
Init ==
    /\ InitDisk
    /\ call = <<NoCall>>
    /\ calls = 0
    /\ pc = "L10"
    /\ InitLoop

Next ==
    \/ MainInit
    \/ MainLogFile
    \/ MainLogFileEnd
    \/ MainWhile
    \/ MainNewGen
    \/ MainWrite
    \/ MainHandler
    \/ MainClose
    \/ WrOpen
    \/ WrNextStart
    \/ WrNextResume
    \/ WrNextDone
    \/ WrWriteRow
    \/ WrReturn
    \/ GenRead
    \/ GenReadIllegal
    \/ GenReadOther
    \/ GenCompose
    \/ GenLeaveTry
    \/ GenExcept
    \/ GenFinally
    \/ Interrupt

Spec == Init /\ [][Next]_vars

----------------------------------------------------------------------------
(* log_file called directly, with any base name, several times in a row *)

DataTxt == <<"d","a","t","a",".","t","x","t">>
NoExt   == <<"l","o","g">>

\* base names handed to log_file
BaseNames == {DefaultOutfile, UpperName, DataTxt, DotCsv, NoExt}

\* line 77: log_file(outfile) is called once the previous call is over
HarnessCall ==
    /\ pc = "harness"
    /\ call[1].pc \in {"idle", "returned", "raised"}
    /\ calls < MaxCalls
    /\ \E outfile \in BaseNames :
          call' = [call EXCEPT ![1] = NewCall(outfile, fs)]
    /\ calls' = calls + 1
    /\ UNCHANGED <<dirs, fs, pc>>
    /\ UNCHANGED LoopVars

\* the body of log_file runs
HarnessStep ==
    /\ pc = "harness"
    /\ LF_Step(1)
    /\ UNCHANGED <<calls, pc>>
    /\ UNCHANGED LoopVars

InitLogFile ==
    /\ InitDisk
    /\ call = <<NoCall>>
    /\ calls = 0
    /\ pc = "harness"
    /\ InitLoop

NextLogFile == HarnessCall \/ HarnessStep

SpecLogFile == InitLogFile /\ [][NextLogFile]_vars

----------------------------------------------------------------------------
(* the decoding of lines 56-68 on arbitrary register words *)

\* 16-bit register values: any low word; high words up to 32767, so that
\* (high << 16) + low stays within the integers TLC computes with
Words     == {0, 1, 456, 65535}
HighWords == {0, 1, 2, 32767}

\* the generator after its eight reads, before line 66
InitDecode ==
    /\ dirs = {"dir", "log_files"}
    /\ fs = (DefaultOutfile :> <<header>>)
    /\ call = <<NoCall>>
    /\ calls = 1
    /\ pc = "L66"
    /\ ctx = "try"
    /\ exc = "none"
    /\ serialOpen = TRUE
    /\ log_filepath = DefaultOutfile
    /\ csv_str = Unbound
    /\ fileOpen = TRUE
    /\ interrupted = FALSE
    /\ intAt = "none"
    /\ clock = 0
    /\ \E power_low \in Words, power_high \in HighWords,
          energy_low \in Words, energy_high \in HighWords :
          LET dev == <<23015, 102, power_low, power_high,
                       energy_low, energy_high, 0, 0>>
              r   == [a \in 1..8 |-> ReadRegister(dev, a - 1, Decimals(a - 1))]
          IN  /\ data_gen = [NewGen(1) EXCEPT !.state = "running", !.k = 8,
                                              !.regs = r]
              /\ hist = <<[NoPoll EXCEPT !.dev = dev, !.vals = r,
                                         !.addrs = [a \in 1..8 |-> a - 1],
                                         !.outcome = "polling"]>>

NextDecode == GenCompose

SpecDecode == InitDecode /\ [][NextDecode]_vars

----------------------------------------------------------------------------
(* Properties of log_file *)

Active(c) == c.pc # "idle"

Returned(c) == c.pc = "returned"

\* the smallest n >= 1 for which <stem>_n.csv is not among the names
SmallestFree(stem, names) ==
    CHOOSE n \in 1..(Cardinality(names) + 1) :
        /\ Numbered(stem, n) \notin names
        /\ \A m \in 1..(n - 1) : Numbered(stem, m) \in names

\* the name ends in .csv, in any letter case
EndsInCsv(name) ==
    /\ Len(name) >= 4
    /\ StrLower(SubSeq(name, Len(name) - 3, Len(name))) = DotCsv

\* something other than dots precedes the last four characters
HasStem(name) == \E j \in 1..(Len(name) - 4) : name[j] # "."

\* C1: log_file never picks an existing file.  The path it returns names a
\* file that did not exist when the call began, no file that existed then has
\* changed, and the name is the base name if that was free, otherwise
\* <stem>_n.csv for the smallest n >= 1 not in use.
C1_FreshFile ==
    \A p \in DOMAIN call :
        LET c    == call[p]
            old  == DOMAIN c.pre
            stem == SplitExt(c.given)[1]
        IN  /\ Active(c) => \A f \in old : f \in DOMAIN fs /\ fs[f] = c.pre[f]
            /\ Returned(c) =>
                  /\ c.new_filepath \notin old
                  /\ c.new_filepath \in DOMAIN fs
                  /\ c.new_filepath =
                        IF c.given \notin old THEN c.given
                        ELSE Numbered(stem, SmallestFree(stem, old))

\* the third call in a row with the default name returns pzem_logs_2.csv
C1_Witness ==
    /\ Returned(call[1])
    /\ call[1].given = DefaultOutfile
    /\ DefaultOutfile \in DOMAIN call[1].pre
    /\ Numbered(SplitExt(DefaultOutfile)[1], 1) \in DOMAIN call[1].pre
    /\ call[1].new_filepath = Numbered(SplitExt(DefaultOutfile)[1], 2)
    /\ fs[call[1].new_filepath] = <<header>>

\* C9 as stated: a base name whose extension is not .csv fails with
\* ValueError and creates nothing, and every name ending in .csv, in any
\* letter case, is accepted.
C9_Original ==
    \A p \in DOMAIN call :
        LET c == call[p]
        IN  c.pc \in {"L105", "L114", "L115", "L124", "L126", "returned", "raised"} =>
               /\ (c.pc = "raised" /\ c.exc = "ValueError") <=> ~EndsInCsv(c.given)
               /\ c.exc = "ValueError" => fs = c.pre /\ ~c.open

\* C9 amended: log_file fails with ValueError, having created no file and
\* written no header, exactly for the base names that do not end in .csv (in
\* any letter case) or that have nothing but dots in front of that ending,
\* such as ".csv"; every other name passes the check.
C9_Extension ==
    \A p \in DOMAIN call :
        LET c == call[p]
        IN  c.pc \in {"L105", "L114", "L115", "L124", "L126", "returned", "raised"} =>
               /\ (c.pc = "raised" /\ c.exc = "ValueError")
                     <=> ~(EndsInCsv(c.given) /\ HasStem(c.given))
               /\ c.exc = "ValueError" => fs = c.pre /\ ~c.open

\* "data.txt" has been refused after "LOG.CSV" had been accepted
C9_Witness ==
    /\ call[1].pc = "raised"
    /\ call[1].exc = "ValueError"
    /\ call[1].given = DataTxt
    /\ fs = call[1].pre
    /\ UpperName \in DOMAIN fs
    /\ fs[UpperName] = <<header>>

----------------------------------------------------------------------------
(* Properties of the polling loop *)

\* main has passed line 11: the log file exists
Logging == pc \notin {"L10", "L11", "harness"} /\ log_filepath # <<>>

\* the lines of the log below the header
DataRows == SubSeq(fs[log_filepath], 2, Len(fs[log_filepath]))

InLog(row) == \E i \in 1..Len(DataRows) : DataRows[i] = row

Stopped == pc \in {"done", "crashed"}

\* the poll cycles that produced a Reading, in the order they ran
RECURSIVE Readings(_)
Readings(h) ==
    IF h = <<>> THEN <<>>
    ELSE LET last == h[Len(h)]
             init == Readings(SubSeq(h, 1, Len(h) - 1))
         IN  IF last.outcome = "reading" THEN Append(init, last.row) ELSE init

Failed(c, kind) == hist[c].outcome = kind

\* C2 as stated: a poll cycle in which a read raised IllegalRequestError adds
\* no row, and the process does not terminate because of it.
C2_Original ==
    \A c \in DOMAIN hist :
        Failed(c, "illegal") => ~hist[c].yielded /\ pc # "crashed"

\* C3 as stated: wherever in the loop the operator interrupt arrives, main
\* closes the serial connection and returns normally; it never ends with an
\* unhandled error or with the serial handle open.  Stated for an interrupt
\* that arrives inside the try statement of lines 15-17.
C3_Original ==
    (interrupted /\ intAt # "L14") =>
        /\ pc # "crashed"
        /\ pc = "done" => ~serialOpen /\ exc = "none"

\* C4 as stated: a Reading that read_pzem_data has yielded is in the log by
\* the time the process exits.
C4_Original ==
    Stopped => \A c \in DOMAIN hist : hist[c].yielded => InLog(hist[c].row)

\* C5: every data row of the log has seven fields, all taken from one poll
\* cycle whose eight reads succeeded; a cycle with a failed or interrupted
\* read has no row and no part of a row in the log.
C5_NoPartialRow ==
    Logging =>
        /\ \A i \in 1..Len(DataRows) :
              LET r == DataRows[i]
              IN  /\ Len(r) = 7
                  /\ \E c \in DOMAIN hist :
                        LET v == hist[c].vals
                        IN  /\ Len(v) = 8
                            /\ hist[c].outcome = "reading"
                            /\ r = hist[c].row
                            /\ r[2] = v[1] /\ r[3] = v[2]
                            /\ r[4] = <<v[4] * 65536 + v[3], 10>>
                            /\ r[5] = <<v[6] * 65536 + v[5], 1>>
                            /\ r[6] = v[7] /\ r[7] = v[8]
        /\ Len(DataRows) <= Len(Readings(hist))

\* a cycle failed after three good reads, and the log holds the row of the
\* cycle before it
C5_Witness ==
    /\ Logging
    /\ Len(DataRows) = 1
    /\ Len(hist) = 2
    /\ hist[2].outcome \in {"illegal", "other", "interrupt"}
    /\ Len(hist[2].vals) = 3
    /\ Stopped

\* the run has come to rest: main has ended, or the transport offers no
\* further poll cycle
AtRest == Stopped \/ (pc = "L16" /\ Len(hist) = MaxCycles)

\* C6 as stated: whatever cycles fail with IllegalRequestError, the polling
\* goes on, and after n cycles of which k failed the log holds the header and
\* the n - k rows of the successful polls in their order.  Stated for a run
\* at rest without operator interrupt and without any other failure.
C6_Original ==
    (Logging /\ AtRest /\ ~interrupted /\ \A c \in DOMAIN hist : ~Failed(c, "other")) =>
        /\ Len(hist) = MaxCycles
        /\ fs[log_filepath][1] = header
        /\ DataRows = Readings(hist)
        /\ Len(DataRows) = Len(hist) - Cardinality({c \in DOMAIN hist : Failed(c, "illegal")})

\* C7: a register read that fails with an error other than
\* IllegalRequestError ends the process with an unhandled exception: the
\* cycle yields nothing, no row is written for it, no further cycle starts
\* and main never goes on to a normal return.
C7_OtherIsFatal ==
    \A c \in DOMAIN hist :
        Failed(c, "other") =>
            /\ c = Len(hist)
            /\ data_gen.id = c
            /\ pc \in {"L74", "crashed"}
            /\ pc = "crashed" => exc # "none" /\ exc # "KeyboardInterrupt"
            /\ ~hist[c].yielded
            /\ hist[c].row = Unbound
            /\ Logging /\ Len(DataRows) = Len(Readings(hist))

\* the second cycle died of such an error after the first was logged
C7_Witness ==
    /\ pc = "crashed"
    /\ Len(hist) = 2
    /\ Failed(2, "other")
    /\ Len(DataRows) = 1
    /\ ~interrupted

\* C8: the row of a successful poll has power = power_high * 65536 +
\* power_low tenths of a watt and energy = energy_high * 65536 + energy_low
\* watt-hours, the low word being the 16 least significant bits.
C8_Decode ==
    (pc = "L68" /\ data_gen.row_data # Unbound) =>
        LET r   == data_gen.regs
            row == data_gen.row_data
        IN  /\ row[4] = <<r[4] * 65536 + r[3], 10>>
            /\ row[5] = <<r[6] * 65536 + r[5], 1>>
            /\ row[4][1] % 65536 = r[3] /\ row[4][1] \div 65536 = r[4]
            /\ row[5][1] % 65536 = r[5] /\ row[5][1] \div 65536 = r[6]

\* power_low = 456 and power_high = 0 have been decoded to 45.6 W
C8_Witness ==
    /\ pc = "L68"
    /\ data_gen.regs[3] = 456
    /\ data_gen.regs[4] = 0
    /\ data_gen.regs[6] = 32767
    /\ data_gen.row_data[4] = <<456, 10>>

\* C10: when log_file has returned, the file it names holds the header row
\* and nothing else; from then on the header stays the first line of it.
C10_HeaderFirst ==
    /\ (pc = "L11" /\ Returned(call[1])) => fs[call[1].new_filepath] = <<header>>
    /\ Logging =>
          /\ log_filepath \in DOMAIN fs
          /\ Len(fs[log_filepath]) >= 1
          /\ fs[log_filepath][1] = header
          /\ hist = <<>> => fs[log_filepath] = <<header>>

\* two rows have been appended below the header of a file named after
\* files of earlier runs
C10_Witness ==
    /\ Logging
    /\ log_filepath = Numbered(SplitExt(DefaultOutfile)[1], 1)
    /\ Len(fs[log_filepath]) = 3
    /\ fs[log_filepath][1] = header

----------------------------------------------------------------------------
(* Further properties of the polling loop *)

IsPrefix(s, t) == Len(s) <= Len(t) /\ SubSeq(t, 1, Len(s)) = s

\* C11: the log is append-only.  Across every step of the main loop (an
\* append, a failed cycle, the interrupt and its handler) each file keeps
\* what it held: its content before the step is a prefix of its content
\* after the step.
C11_AppendOnly ==
    [][Logging =>
          \A f \in DOMAIN fs : f \in DOMAIN fs' /\ IsPrefix(fs[f], fs'[f])]_vars

\* two rows were appended, then the interrupt handler ran and main returned
C11_Witness ==
    /\ Logging
    /\ pc = "done"
    /\ interrupted
    /\ Len(DataRows) = 2
    /\ DataRows[1] # DataRows[2]

\* C12: when the log_files folder could not be created, log_file ends with
\* an OSError: it returns no path, opens no file, writes no header, and main
\* ends with that error before any poll cycle starts.
C12_FolderFailure ==
    \A p \in DOMAIN call :
        LET c == call[p]
        IN  (c.pc \in {"L114", "L115", "L124", "L126", "returned", "raised"}
             /\ "log_files" \notin dirs) =>
               /\ c.pc \in {"L114", "L124", "raised"}
               /\ c.pc = "raised" => c.exc = "OSError"
               /\ ~c.open
               /\ fs = c.pre
               /\ pc \in {"L11", "crashed"}
               /\ pc = "crashed" => exc = "OSError"
               /\ log_filepath = <<>>
               /\ hist = <<>>

\* main has ended with the OSError of log_file; nothing was polled or written
C12_Witness ==
    /\ pc = "crashed"
    /\ exc = "OSError"
    /\ call[1].pc = "raised"
    /\ "log_files" \notin dirs
    /\ DOMAIN fs = {}
    /\ hist = <<>>

\* C13 as stated: an operator interrupt that arrives between two poll
\* cycles, after at least one cycle has completed and with no Reading
\* pending, makes the handler append nothing and close the serial
\* connection, and main returns without an error.
C13_Original ==
    (Logging /\ interrupted /\ intAt \in {"L14", "L16"} /\ Len(hist) >= 1) =>
        /\ pc # "crashed"
        /\ exc = "none"
        /\ pc = "done" => ~serialOpen
        /\ DataRows = Readings(hist)

\* C14: within one poll cycle the registers are read in the order 0x0000,
\* 0x0001, ..., 0x0007, each at most once, and a read that fails is the last
\* read of its cycle.
C14_ReadOrder ==
    \A c \in DOMAIN hist :
        LET a == hist[c].addrs
            n == Len(hist[c].vals)
        IN  /\ Len(a) <= 8
            /\ \A i \in 1..Len(a) : a[i] = i - 1
            /\ Len(a) = IF hist[c].outcome \in {"illegal", "other"} THEN n + 1 ELSE n

\* a full cycle of eight reads was followed by a cycle whose fourth read
\* failed
C14_Witness ==
    /\ pc = "crashed"
    /\ Len(hist) = 2
    /\ hist[1].addrs = <<0, 1, 2, 3, 4, 5, 6, 7>>
    /\ hist[2].outcome = "illegal"
    /\ hist[2].addrs = <<0, 1, 2, 3>>

\* positions inside the generator, and inside the with block of
\* write_results (which encloses the generator's run)
InGenerator == {"read", "L66", "L68", "L71", "L74"}
InsideWith  == {"L141", "L142", "Lexit"} \cup InGenerator

\* C15 as stated: the log is opened for appending only once the reads of the
\* cycle have produced a Reading, not at all in a cycle without a Reading,
\* and no handle on the log is open while a register read is in progress or
\* after write_results has returned or raised.
C15_Original ==
    /\ pc \in InGenerator => ~fileOpen
    /\ fileOpen => data_gen.row_data # Unbound
    /\ pc \notin InsideWith => ~fileOpen

\* C15 amended: write_results opens the log before the generator runs, so the
\* handle is open exactly while control is inside its with block, the
\* register reads of the cycle included, also in a cycle that yields no
\* Reading; a row is written only after all eight reads of that cycle have
\* produced a Reading; no handle is open once write_results has returned or
\* raised.
C15_OpenAroundPoll ==
    /\ fileOpen <=> pc \in InsideWith
    /\ pc = "L142" =>
          /\ Len(hist[data_gen.id].vals) = 8
          /\ hist[data_gen.id].outcome = "reading"
          /\ csv_str = hist[data_gen.id].row

\* the log is open while the fourth register of a cycle is about to be read
C15_Witness ==
    /\ pc = "read"
    /\ ctx = "try"
    /\ fileOpen
    /\ Len(hist[data_gen.id].vals) = 3

\* the lines of the log that hold the Reading of poll cycle c
RowsOf(c) == {i \in 1..Len(DataRows) : DataRows[i] = hist[c].row}

\* C17: a poll cycle puts at most one row into the log over the whole run,
\* and none unless its generator has yielded; every data row is the row of
\* some cycle.  When the handler of line 19 calls write_results on a
\* generator that has already been started, that call reads no register and
\* appends nothing.
C17_OneRowPerCycle ==
    /\ [](Logging =>
            /\ \A c \in DOMAIN hist :
                  Cardinality(RowsOf(c)) <= (IF hist[c].yielded THEN 1 ELSE 0)
            /\ \A i \in 1..Len(DataRows) :
                  \E c \in DOMAIN hist : hist[c].yielded /\ i \in RowsOf(c))
    /\ [][(ctx = "except" /\ pc = "L141" /\ data_gen.state # "created") =>
             (pc' = "Lexit" /\ fs' = fs /\ hist' = hist)]_vars

\* the interrupt came after the row of the only cycle had been written and
\* its generator was exhausted; the handler ran and the log holds that row
\* once
C17_Witness ==
    /\ Logging
    /\ pc = "done"
    /\ intAt = "Lexit"
    /\ Len(hist) = 1
    /\ hist[1].yielded
    /\ DataRows = <<hist[1].row>>

----------------------------------------------------------------------------
(* two invocations of log_file that overlap: same directory, same base name *)

\* both processes have called log_file (line 11) on the same directory tree
InitRace ==
    /\ InitDisk
    /\ \E outfile \in {DefaultOutfile, UpperName} :
          call = <<NewCall(outfile, fs), NewCall(outfile, fs)>>
    /\ calls = 2
    /\ pc = "race"
    /\ InitLoop

\* one of the two calls takes its next step
RaceStep ==
    /\ pc = "race"
    /\ \E p \in DOMAIN call : LF_Step(p)
    /\ UNCHANGED <<calls, pc>>
    /\ UNCHANGED LoopVars

NextRace == RaceStep

SpecRace == InitRace /\ [][NextRace]_vars

\* C16 as stated: however the steps of two overlapping log_file calls with
\* the same directory and base name interleave, the calls return different
\* paths and each returned file holds exactly the one header row.
C16_Original ==
    (pc = "race" /\ Returned(call[1]) /\ Returned(call[2])) =>
        /\ call[1].new_filepath # call[2].new_filepath
        /\ fs[call[1].new_filepath] = <<header>>
        /\ fs[call[2].new_filepath] = <<header>>

====
